---- MODULE Spec2Model ----
(***************************************************************************)
(* FinTech banking ledger: the money-movement endpoints of                 *)
(* api/routes/transactions.py, the account endpoints of                    *)
(* api/routes/accounts.py and api/routes/admin.py, the connection pool of  *)
(* api/database.py and the scoring loop of ai_worker/worker.py, all        *)
(* acting on one MySQL database.                                           *)
(*                                                                         *)
(* Committed database state is held in accounts, transactions, entries     *)
(* and risk_scores.  A request handler runs on its own pooled connection   *)
(* with autocommit off: the rows it writes stay private to the handler     *)
(* (fields of req[p]) until its conn.commit(), and are discarded by        *)
(* conn.rollback() or by returning the connection to the pool.             *)
(***************************************************************************)
EXTENDS Integers, Sequences, FiniteSets, TLC

VARIABLES accounts, transactions, entries, risk_scores, next_txn_id,
          req, response, wk, model_file, db_up, outages, call, busy

vars == <<accounts, transactions, entries, risk_scores, next_txn_id,
          req, response, wk, model_file, db_up, outages, call, busy>>

\* whether the worker's host can reach the database server, the number of
\* outages so far, the call of the scorer under examination, and the
\* number of pooled connections held by other endpoints of the service
env == <<db_up, outages, call, busy>>

worker == <<risk_scores, wk, model_file, env>>

ledger == <<accounts, transactions, entries>>

----------------------------------------------------------------------------
(* Bounds *)

MaxTxns == 3

StatusTxns == 2

ScenarioTxns == 3

AuthTxns == 2

AccountTxns == 2

PoolTxns == 2

\* pool_size of init_pool, scaled down
PoolSize == 3

WorkerTxns == 2

MaxOutages == 1

Procs == {"p1", "p2"}

Workers == {"w1", "w2"}

Amounts == {1, 2}

StatusAmounts == {1}

ScenarioAmounts == {30, 50, 100}

----------------------------------------------------------------------------
(* Tables *)

Users == {"u1", "u2"}

\* a user whose is_active flag an admin has cleared and whose token is
\* still valid
Deactivated == {"u3"}

CustomerAccts == {"A", "B"}

CashAcct == "CASH"

AcctIds == CustomerAccts \cup {CashAcct}

\* an account id that is in no row of the accounts table
NoAcct == "X"

InitAccounts ==
  [a \in AcctIds |->
     IF a = CashAcct
       THEN [user_id |-> "bank", account_type |-> "loan",
             current_balance |-> 0, status |-> "active"]
       ELSE [user_id |-> (IF a = "A" THEN "u1" ELSE "u2"),
             account_type |-> "savings",
             current_balance |-> 0, status |-> "active"]]

RECURSIVE SumAmounts(_)
SumAmounts(s) ==
  IF s = <<>> THEN 0 ELSE Head(s).amount + SumAmounts(Tail(s))

EntriesOfTxn(t) ==
  LET Test(e) == e.transaction_id = t IN SelectSeq(entries, Test)

EntriesOfAcct(a) ==
  LET Test(e) == e.account_id = a IN SelectSeq(entries, Test)

TxnIds == {transactions[i].transaction_id : i \in 1..Len(transactions)}

ScoredIds == {risk_scores[i].transaction_id : i \in 1..Len(risk_scores)}

----------------------------------------------------------------------------
(* Request handlers *)

Idle ==
  [pc |-> "idle", op |-> "none", user |-> "none", pw_ok |-> TRUE,
   account_id |-> "none", receiver |-> "none", amount |-> 0,
   current_balance |-> 0, txn_id |-> 0]

\* response holds the HTTP response produced by the latest step, if any,
\* with the caller and the request it answers
NoResponse == [op |-> "none", user |-> "none", pw_ok |-> TRUE,
               account_id |-> "none", amount |-> 0, result |-> "none"]

InFlight == {p \in Procs : req[p].pc # "idle"}

\* every request that is under way can still draw a transaction id
CanStart(limit) == next_txn_id + Cardinality(InFlight) <= limit

Respond(p, user, pw_ok, op, a, amt, r) ==
  /\ req' = [req EXCEPT ![p] = Idle]
  /\ response' = [op |-> op, user |-> user, pw_ok |-> pw_ok,
                  account_id |-> a, amount |-> amt, result |-> r]

Answer(p, r) ==
  Respond(p, req[p].user, req[p].pw_ok, req[p].op, req[p].account_id,
          req[p].amount, r)

Continue(p, r) ==
  /\ req' = [req EXCEPT ![p] = r]
  /\ response' = NoResponse

VerifyAccountOwnership_AnyOwner(user, pw_ok, a) ==
  IF user \in Deactivated THEN "403"
  ELSE IF ~pw_ok THEN "401"
  ELSE IF a \notin AcctIds THEN "403"
  ELSE IF accounts[a].status # "active" THEN "AccountNotUsable"
  ELSE "pass"

VerifyAccountOwnership_NoPassword(user, pw_ok, a) ==
  IF user \in Deactivated THEN "403"
  ELSE IF a \notin AcctIds \/ accounts[a].user_id # user THEN "403"
  ELSE IF accounts[a].status # "active" THEN "AccountNotUsable"
  ELSE "pass"

VerifyAccountOwnership_NoStatus(user, pw_ok, a) ==
  IF user \in Deactivated THEN "403"
  ELSE IF ~pw_ok THEN "401"
  ELSE IF a \notin AcctIds \/ accounts[a].user_id # user THEN "403"
  ELSE "pass"

\* authenticate_user, then _verify_account_ownership: the response of the
\* checks that precede every money movement, "pass" when all of them pass
VerifyAccountOwnership(user, pw_ok, a) ==
  IF user \in Deactivated THEN "403"
  ELSE IF ~pw_ok THEN "401"
  ELSE IF a \notin AcctIds \/ accounts[a].user_id # user THEN "403"
  ELSE IF accounts[a].status # "active" THEN "AccountNotUsable"
  ELSE "pass"

WithdrawVerify(p, user, pw_ok, a, amt) ==
  /\ req[p].pc = "idle"
  /\ LET v == VerifyAccountOwnership(user, pw_ok, a) IN
       IF v # "pass" THEN Respond(p, user, pw_ok, "withdraw", a, amt, v)
       ELSE IF accounts[a].current_balance < amt
              THEN Respond(p, user, pw_ok, "withdraw", a, amt,
                           "InsufficientFunds")
       ELSE Continue(p, [pc |-> "verified", op |-> "withdraw", user |-> user,
                         pw_ok |-> pw_ok,
                         account_id |-> a, receiver |-> "none",
                         amount |-> amt,
                         current_balance |-> accounts[a].current_balance,
                         txn_id |-> 0])
  /\ UNCHANGED <<ledger, next_txn_id, worker>>

WithdrawInsertTxn(p) ==
  /\ req[p].pc = "verified" /\ req[p].op = "withdraw"
  /\ Continue(p, [req[p] EXCEPT !.pc = "txn_inserted",
                                 !.txn_id = next_txn_id])
  /\ next_txn_id' = next_txn_id + 1
  /\ UNCHANGED <<ledger, worker>>

WithdrawInsertEntry(p) ==
  /\ req[p].pc = "txn_inserted"
  /\ Continue(p, [req[p] EXCEPT !.pc = "entry_inserted"])
  /\ UNCHANGED <<ledger, next_txn_id, worker>>

WithdrawTxnRow(r) ==
  [transaction_id |-> r.txn_id, type_code |-> "WITHDRAWAL"]

WithdrawEntries_Unsigned(r) ==
  <<[transaction_id |-> r.txn_id, account_id |-> r.account_id,
     amount |-> r.amount,
     balance_after |-> r.current_balance - r.amount]>>

\* the single (debit) entry a withdrawal inserts; balance_after is computed
\* from the balance read by _verify_account_ownership
WithdrawEntries(r) ==
  <<[transaction_id |-> r.txn_id, account_id |-> r.account_id,
     amount |-> 0 - r.amount,
     balance_after |-> r.current_balance - r.amount]>>

WithdrawNewBalance_Absolute(r) == r.current_balance - r.amount

\* UPDATE accounts SET current_balance = current_balance - amount
WithdrawNewBalance(r) == accounts[r.account_id].current_balance - r.amount

\* the UPDATE takes the row lock of the account and works on its latest
\* committed balance; conn.commit() follows it
WithdrawCommit(p) ==
  /\ req[p].pc = "entry_inserted"
  /\ transactions' = Append(transactions, WithdrawTxnRow(req[p]))
  /\ entries' = entries \o WithdrawEntries(req[p])
  /\ accounts' = [accounts EXCEPT ![req[p].account_id].current_balance =
                                     WithdrawNewBalance(req[p])]
  /\ Answer(p, "ok")
  /\ UNCHANGED <<next_txn_id, worker>>

\* the rows a withdrawal has written on its connection so far
PendingRows(r) ==
  [txn |-> IF r.pc \in {"txn_inserted", "entry_inserted"}
             THEN <<WithdrawTxnRow(r)>> ELSE <<>>,
   ent |-> IF r.pc = "entry_inserted" THEN WithdrawEntries(r) ELSE <<>>]

RollbackKeeps_Pending(r) == PendingRows(r)

\* the rows of a withdrawal that stay in the database when one of its
\* statements raises: conn.rollback() discards whatever was written
RollbackKeeps(r) == [txn |-> <<>>, ent |-> <<>>]

WithdrawFail(p) ==
  /\ req[p].op = "withdraw"
  /\ req[p].pc \in {"verified", "txn_inserted", "entry_inserted"}
  /\ transactions' = transactions \o RollbackKeeps(req[p]).txn
  /\ entries' = entries \o RollbackKeeps(req[p]).ent
  /\ Answer(p, "500")
  /\ UNCHANGED <<accounts, next_txn_id, worker>>

----------------------------------------------------------------------------
(* Deposit: the checks are in the handler, the writes in sp_deposit_cash *)

DepositVerify(p, user, pw_ok, a, amt) ==
  /\ req[p].pc = "idle"
  /\ LET v == VerifyAccountOwnership(user, pw_ok, a) IN
       IF v # "pass" THEN Respond(p, user, pw_ok, "deposit", a, amt, v)
       ELSE Continue(p, [pc |-> "verified", op |-> "deposit", user |-> user,
                         pw_ok |-> pw_ok,
                         account_id |-> a, receiver |-> "none",
                         amount |-> amt, current_balance |-> 0,
                         txn_id |-> 0])
  /\ UNCHANGED <<ledger, next_txn_id, worker>>

\* sp_deposit_cash: one transaction, a debit of the bank's cash account and
\* a credit of the customer's account, both balances moved, all under the
\* row locks of the procedure
SpDepositCash(a, amt, id) ==
  [txn |-> [transaction_id |-> id, type_code |-> "DEPOSIT"],
   ent |-> <<[transaction_id |-> id, account_id |-> CashAcct,
              amount |-> 0 - amt,
              balance_after |-> accounts[CashAcct].current_balance - amt],
             [transaction_id |-> id, account_id |-> a, amount |-> amt,
              balance_after |-> accounts[a].current_balance + amt]>>,
   acc |-> [accounts EXCEPT
              ![CashAcct].current_balance = @ - amt,
              ![a].current_balance = @ + amt]]

DepositCallProc(p) ==
  /\ req[p].pc = "verified" /\ req[p].op = "deposit"
  /\ LET w == SpDepositCash(req[p].account_id, req[p].amount, next_txn_id) IN
       /\ transactions' = Append(transactions, w.txn)
       /\ entries' = entries \o w.ent
       /\ accounts' = w.acc
  /\ next_txn_id' = next_txn_id + 1
  /\ Answer(p, "ok")
  /\ UNCHANGED worker

\* callproc or commit raises: the handler answers 500 and the connection
\* goes back to the pool with nothing committed
ProcFail(p) ==
  /\ req[p].pc = "verified" /\ req[p].op \in {"deposit", "transfer"}
  /\ Answer(p, "500")
  /\ UNCHANGED <<ledger, next_txn_id, worker>>

----------------------------------------------------------------------------
(* Transfer: the sender is checked in the handler, everything else in      *)
(* sp_perform_transfer                                                     *)

TransferVerify(p, user, pw_ok, a, b, amt) ==
  /\ req[p].pc = "idle"
  /\ LET v == VerifyAccountOwnership(user, pw_ok, a) IN
       IF v # "pass" THEN Respond(p, user, pw_ok, "transfer", a, amt, v)
       ELSE Continue(p, [pc |-> "verified", op |-> "transfer", user |-> user,
                         pw_ok |-> pw_ok,
                         account_id |-> a, receiver |-> b,
                         amount |-> amt, current_balance |-> 0,
                         txn_id |-> 0])
  /\ UNCHANGED <<ledger, next_txn_id, worker>>

SpTransferStatus_AnyReceiver(a, b, amt) ==
  IF b \notin AcctIds THEN "ValidationError"
  ELSE IF accounts[a].current_balance < amt THEN "InsufficientFunds"
  ELSE "ok"

\* the precondition checks of sp_perform_transfer, made under its row locks
SpTransferStatus(a, b, amt) ==
  IF b = a \/ b \notin AcctIds THEN "ValidationError"
  ELSE IF accounts[b].status # "active" THEN "AccountNotUsable"
  ELSE IF accounts[a].current_balance < amt THEN "InsufficientFunds"
  ELSE "ok"

SpPerformTransfer(a, b, amt, id) ==
  [txn |-> [transaction_id |-> id, type_code |-> "TRANSFER"],
   ent |-> <<[transaction_id |-> id, account_id |-> a, amount |-> 0 - amt,
              balance_after |-> accounts[a].current_balance - amt],
             [transaction_id |-> id, account_id |-> b, amount |-> amt,
              balance_after |-> accounts[b].current_balance + amt]>>,
   acc |-> [accounts EXCEPT
              ![a].current_balance = @ - amt,
              ![b].current_balance = @ + amt]]

TransferCallProc(p) ==
  /\ req[p].pc = "verified" /\ req[p].op = "transfer"
  /\ LET st == SpTransferStatus(req[p].account_id, req[p].receiver,
                                req[p].amount)
         w  == SpPerformTransfer(req[p].account_id, req[p].receiver,
                                 req[p].amount, next_txn_id) IN
       IF st = "ok"
         THEN /\ transactions' = Append(transactions, w.txn)
              /\ entries' = entries \o w.ent
              /\ accounts' = w.acc
              /\ next_txn_id' = next_txn_id + 1
              /\ Answer(p, "ok")
         ELSE /\ UNCHANGED <<ledger, next_txn_id>>
              /\ Answer(p, st)
  /\ UNCHANGED worker

----------------------------------------------------------------------------
(* Connection pool (api/database.py).  Every request under way holds the   *)
(* connection its handler took; authenticate_user takes a second one for   *)
(* the time of its SELECT.  MySQLConnectionPool.get_connection raises      *)
(* PoolError at once when no connection is free.                           *)

PoolFree == PoolSize - busy - Cardinality(InFlight)

\* the response to an exception: one raised inside the handler's try
\* statement becomes HTTPException(500), one raised outside it is left to
\* the server, which answers Internal Server Error
ExceptionResponse(inside_try) ==
  IF inside_try THEN "500" ELSE "InternalServerError"

\* a money request that finds the pool exhausted: get_connection of the
\* handler raises (outside its try statement), or the handler takes the
\* last connection and get_connection of authenticate_user raises
PoolExhausted(p, user, op, a, amt) ==
  /\ req[p].pc = "idle"
  /\ PoolFree < 2
  /\ Respond(p, user, TRUE, op, a, amt, ExceptionResponse(PoolFree = 1))
  /\ UNCHANGED <<ledger, next_txn_id, worker>>

\* another endpoint (get_db, execute_query) takes a connection
OtherTake ==
  /\ PoolFree >= 1
  /\ busy' = busy + 1
  /\ response' = NoResponse
  /\ UNCHANGED <<ledger, next_txn_id, req, risk_scores, wk, model_file,
                 db_up, outages, call>>

\* and gives it back
OtherRelease ==
  /\ busy >= 1
  /\ busy' = busy - 1
  /\ response' = NoResponse
  /\ UNCHANGED <<ledger, next_txn_id, req, risk_scores, wk, model_file,
                 db_up, outages, call>>

----------------------------------------------------------------------------
(* Account endpoints of the owner *)

CloseRead(p, user, a) ==
  /\ req[p].pc = "idle"
  /\ IF a \notin AcctIds \/ accounts[a].user_id # user
       THEN Respond(p, user, TRUE, "close", a, 0, "404")
     ELSE IF accounts[a].status = "closed"
       THEN Respond(p, user, TRUE, "close", a, 0, "AlreadyClosed")
     ELSE IF accounts[a].current_balance # 0
       THEN Respond(p, user, TRUE, "close", a, 0, "NonZeroBalance")
     ELSE Continue(p, [pc |-> "checked", op |-> "close", user |-> user,
                       pw_ok |-> TRUE, account_id |-> a,
                       receiver |-> "none", amount |-> 0,
                       current_balance |-> 0, txn_id |-> 0])
  /\ UNCHANGED <<ledger, next_txn_id, worker>>

CloseCommit(p) ==
  /\ req[p].pc = "checked" /\ req[p].op = "close"
  /\ accounts' = [accounts EXCEPT ![req[p].account_id].status = "closed"]
  /\ Answer(p, "ok")
  /\ UNCHANGED <<transactions, entries, next_txn_id, worker>>

ToggleFreezeRead(p, user, a) ==
  /\ req[p].pc = "idle"
  /\ IF a \notin AcctIds \/ accounts[a].user_id # user
       THEN Respond(p, user, TRUE, "freeze", a, 0, "404")
     ELSE IF accounts[a].status = "closed"
       THEN Respond(p, user, TRUE, "freeze", a, 0, "ClosedAccount")
     ELSE Continue(p, [pc |-> "checked", op |-> "freeze", user |-> user,
                       pw_ok |-> TRUE, account_id |-> a,
                       receiver |-> (IF accounts[a].status = "active"
                                       THEN "frozen" ELSE "active"),
                       amount |-> 0, current_balance |-> 0, txn_id |-> 0])
  /\ UNCHANGED <<ledger, next_txn_id, worker>>

ToggleFreezeCommit(p) ==
  /\ req[p].pc = "checked" /\ req[p].op = "freeze"
  /\ accounts' = [accounts EXCEPT ![req[p].account_id].status =
                                     req[p].receiver]
  /\ Answer(p, "ok")
  /\ UNCHANGED <<transactions, entries, next_txn_id, worker>>

----------------------------------------------------------------------------
(* Account endpoints of the administrator: the same statements as the      *)
(* owner's, for any account                                                *)

Admin == "admin"

admin_close_account(p, a) ==
  /\ req[p].pc = "idle"
  /\ IF a \notin AcctIds
       THEN Respond(p, Admin, TRUE, "close", a, 0, "404")
     ELSE IF accounts[a].status = "closed"
       THEN Respond(p, Admin, TRUE, "close", a, 0, "AlreadyClosed")
     ELSE IF accounts[a].current_balance # 0
       THEN Respond(p, Admin, TRUE, "close", a, 0, "NonZeroBalance")
     ELSE Continue(p, [pc |-> "checked", op |-> "close", user |-> Admin,
                       pw_ok |-> TRUE, account_id |-> a,
                       receiver |-> "none", amount |-> 0,
                       current_balance |-> 0, txn_id |-> 0])
  /\ UNCHANGED <<ledger, next_txn_id, worker>>

admin_freeze_account(p, a) ==
  /\ req[p].pc = "idle"
  /\ IF a \notin AcctIds
       THEN Respond(p, Admin, TRUE, "freeze", a, 0, "404")
     ELSE IF accounts[a].status = "closed"
       THEN Respond(p, Admin, TRUE, "freeze", a, 0, "ClosedAccount")
     ELSE Continue(p, [pc |-> "checked", op |-> "freeze", user |-> Admin,
                       pw_ok |-> TRUE, account_id |-> a,
                       receiver |-> (IF accounts[a].status = "active"
                                       THEN "frozen" ELSE "active"),
                       amount |-> 0, current_balance |-> 0, txn_id |-> 0])
  /\ UNCHANGED <<ledger, next_txn_id, worker>>

----------------------------------------------------------------------------

(* Anomaly scorer (ai_worker/ai_engine.py).  Decision values and risk      *)
(* scores are fixed-point numbers counted in units of 1/Unit, one digit    *)
(* finer than the four decimals predict rounds to.                         *)

Unit == 100000

THRESHOLD_SUSPICIOUS == 50000

THRESHOLD_CRITICAL == 80000

\* the least number of training rows train() fits the model on
MinTrainingRows == 10

MaxRows == 11

RawStep == 10000

MaxRaw == 10

\* decision values of the forest: a grid over [-1, 1] and values next to
\* the ones that normalize to a threshold; all even, so that halving is
\* exact and no risk lies half-way between two four-decimal numbers
RawScores ==
  {RawStep * k : k \in (0 - MaxRaw)..MaxRaw}
    \cup {0 - 10004, 0 - 9998, 0 - 9996, 0 - 4, 4, 9996}

\* the decision values the worker's detector returns
WorkerRaws == {0 - 20000, 20000}

Abs(x) == IF x < 0 THEN 0 - x ELSE x

Min(x, y) == IF x <= y THEN x ELSE y

Max(x, y) == IF x >= y THEN x ELSE y

\* IsolationForest.predict labels a point -1 (outlier) exactly when its
\* decision_function value is negative
Prediction(raw_score) == IF raw_score < 0 THEN 0 - 1 ELSE 1

NormalizeScore_Unbanded(raw_score, prediction) ==
  Max(0, Min(Unit, 50000 - (raw_score \div 2)))

NormalizeScore(raw_score, prediction) ==
  LET risk == IF prediction = 0 - 1
                THEN 60000 + Min(40000, Abs(raw_score) * 2)
                ELSE Max(0, 40000 - (raw_score \div 2))
  IN Max(0, Min(Unit, risk))

\* round(risk_score, 4)
Round4(risk) == ((risk + 5) \div 10) * 10

Verdict(risk_score) ==
  IF risk_score >= THRESHOLD_CRITICAL THEN "CRITICAL"
  ELSE IF risk_score >= THRESHOLD_SUSPICIOUS THEN "SUSPICIOUS"
  ELSE "SAFE"

Untrained_Guess ==
  [risk_score |-> THRESHOLD_SUSPICIOUS, verdict |-> "SUSPICIOUS",
   reason |-> "none"]

\* what predict returns before any model is trained or loaded
Untrained ==
  [risk_score |-> 0, verdict |-> "SAFE", reason |-> "Model not trained"]

\* predict: the verdict is taken from the risk before it is rounded
Predict(is_trained, raw_score) ==
  IF ~is_trained THEN Untrained
  ELSE LET risk_score == NormalizeScore(raw_score, Prediction(raw_score))
       IN [risk_score |-> Round4(risk_score),
           verdict |-> Verdict(risk_score),
           reason |-> "none"]

Train_NoBootstrap(rows) ==
  [is_trained |-> rows >= MinTrainingRows, model |-> "historical"]

\* train: fit on the rows given, or on synthetic data when they are few
Train(rows) ==
  [is_trained |-> TRUE,
   model |-> IF rows < MinTrainingRows THEN "synthetic" ELSE "historical"]

\* load: TRUE when the model file exists
Load(file_exists) ==
  [is_trained |-> file_exists,
   model |-> IF file_exists THEN "file" ELSE "none"]

----------------------------------------------------------------------------

(* Scoring worker (ai_worker/worker.py), one process per element of        *)
(* Workers.  Its connection has autocommit off, so a SELECT opens a        *)
(* transaction that lasts until the next conn.commit(); under              *)
(* REPEATABLE-READ every SELECT of that transaction reads the snapshot     *)
(* taken by the first one.  The level is the server's default for the      *)
(* session: the worker never sets it.                                      *)

IsolationLevels == {"REPEATABLE-READ", "READ-COMMITTED"}

NoSnap == [open |-> FALSE, txns |-> {}, scored |-> {}]

\* log is the error printed by the handler of line 198 in the current
\* iteration of the loop, if any; isolation is "none" while the worker
\* holds no open connection; model is the data the detector's model was
\* fitted on
Stopped ==
  [pc |-> "start", isolation |-> "none", is_trained |-> FALSE,
   model |-> "none", snap |-> NoSnap, batch |-> <<>>, log |-> "none"]

\* conn.is_connected()
IsConnected(w) == wk[w].isolation # "none"

\* the committed rows a SELECT of worker w reads
ReadView(w) ==
  IF wk[w].snap.open THEN wk[w].snap
  ELSE [open |-> TRUE, txns |-> TxnIds, scored |-> ScoredIds]

\* the transaction the connection is in after a SELECT
AfterSelect(w) ==
  IF wk[w].isolation = "REPEATABLE-READ" THEN ReadView(w) ELSE NoSnap

\* transactions.created_at, in seconds: ids are drawn in the order of the
\* inserts, and two inserts fall within each second of the server's clock
CreatedAt(id) == id \div 2

Ascending_Reversed(x, y) == x.created_at >= y.created_at

\* ASC: row x may come before row y
Ascending(x, y) == x.created_at <= y.created_at

\* ORDER BY t.created_at ASC: the orders in which the server can return
\* the rows of S, rows of one second in any order
RECURSIVE OrderByCreatedAt(_)
OrderByCreatedAt(S) ==
  IF S = {} THEN {<<>>}
  ELSE UNION {{<<r>> \o t : t \in OrderByCreatedAt(S \ {r})} :
                r \in {x \in S : \A y \in S : Ascending(x, y)}}

\* the debit entries of the transactions a SELECT sees
DebitEntries(view) ==
  {j \in 1..Len(entries) :
     entries[j].amount < 0 /\ entries[j].transaction_id \in view.txns}

\* fetch_unscored_transactions: the results the query can have, the debit
\* entries of the transactions that have no risk score, oldest first
FetchUnscored(view) ==
  OrderByCreatedAt(
    {[transaction_id |-> entries[i].transaction_id,
      amount |-> 0 - entries[i].amount,
      sender_account_id |-> entries[i].account_id,
      created_at |-> CreatedAt(entries[i].transaction_id)] :
     i \in {j \in DebitEntries(view) :
              entries[j].transaction_id \notin view.scored}})

\* get_sender_frequency: the debit entries of the sending account in the
\* hour that ends at the transaction's second (every transaction of a run
\* is created within one hour)
SenderFrequency(view, row) ==
  Cardinality({j \in DebitEntries(view) :
                 /\ entries[j].account_id = row.sender_account_id
                 /\ CreatedAt(entries[j].transaction_id) <= row.created_at})

\* get_connection of line 145
WorkerConnect(w) ==
  /\ wk[w].pc = "start"
  /\ db_up
  /\ \E iso \in IsolationLevels :
       wk' = [wk EXCEPT ![w] = [Stopped EXCEPT !.pc = "training",
                                               !.isolation = iso]]
  /\ response' = NoResponse
  /\ UNCHANGED <<ledger, next_txn_id, req, env, risk_scores, model_file>>

\* train_model: load the model file, or read the training data and train
WorkerTrain(w) ==
  /\ wk[w].pc = "training"
  /\ model_file \/ IsConnected(w)
  /\ LET detector ==
           IF Load(model_file).is_trained THEN Load(model_file)
           ELSE Train(Cardinality(DebitEntries(ReadView(w))))
     IN wk' = [wk EXCEPT ![w].pc = "poll",
                         ![w].is_trained = detector.is_trained,
                         ![w].model = detector.model,
                         ![w].snap = IF model_file THEN wk[w].snap
                                     ELSE AfterSelect(w)]
  /\ model_file' = TRUE
  /\ response' = NoResponse
  /\ UNCHANGED <<ledger, next_txn_id, req, env, risk_scores>>

\* lines 145 and 148 are outside the try statement: an exception of
\* get_connection or of fetch_training_data ends the process
WorkerCrash(w) ==
  /\ \/ wk[w].pc = "start" /\ ~db_up
     \/ wk[w].pc = "training" /\ ~model_file /\ ~IsConnected(w)
  /\ wk' = [wk EXCEPT ![w] = [Stopped EXCEPT !.pc = "crashed"]]
  /\ response' = NoResponse
  /\ UNCHANGED <<ledger, next_txn_id, req, env, risk_scores, model_file>>

\* lines 157-158: a dropped connection is replaced at the next poll
WorkerReconnect(w) ==
  /\ wk[w].pc = "poll"
  /\ ~IsConnected(w)
  /\ db_up
  /\ \E iso \in IsolationLevels :
       wk' = [wk EXCEPT ![w].isolation = iso, ![w].snap = NoSnap]
  /\ response' = NoResponse
  /\ UNCHANGED <<ledger, next_txn_id, req, env, risk_scores, model_file>>

WorkerFetch(w) ==
  /\ wk[w].pc = "poll"
  /\ IsConnected(w)
  /\ \E unscored \in FetchUnscored(ReadView(w)) :
       wk' = [wk EXCEPT ![w].snap = AfterSelect(w),
                        ![w].batch = unscored,
                        ![w].pc = IF unscored = <<>> THEN "sleep"
                                  ELSE "scoring"]
  /\ response' = NoResponse
  /\ UNCHANGED <<ledger, next_txn_id, req, env, risk_scores, model_file>>

DuplicateScore_Unchecked(id) == FALSE

\* the uniqueness constraint of transaction_risk_scores.transaction_id
DuplicateScore(id) == id \in ScoredIds

\* insert_risk_score: one row for the transaction
ScoreRows(id, freq, result) ==
  <<[transaction_id |-> id, risk_score |-> result.risk_score,
     verdict |-> result.verdict, sender_tx_freq |-> freq,
     model_version |-> "v1.0"]>>

InsertRiskScore_Latest(rows, new) == new

\* the INSERT of insert_risk_score and its commit: the new row is added to
\* the table, whose other rows stay as they are
InsertRiskScore(rows, new) == rows \o new

ExceptHandler_Exits(w, e) ==
  [wk[w] EXCEPT !.batch = <<>>, !.log = e, !.pc = "exited",
                !.snap = AfterSelect(w)]

\* the handler of lines 198-200: the exception left the for loop, the
\* error is printed and the worker sleeps
ExceptHandler(w, e) ==
  [wk[w] EXCEPT !.batch = <<>>, !.log = e, !.pc = "sleep",
                !.snap = AfterSelect(w)]

\* one iteration of the for loop: get_sender_frequency, predict,
\* insert_risk_score with its commit
WorkerScore(w) ==
  /\ wk[w].pc = "scoring"
  /\ IsConnected(w)
  /\ LET row == Head(wk[w].batch) IN
       IF DuplicateScore(row.transaction_id)
         THEN /\ wk' = [wk EXCEPT ![w] = ExceptHandler(w, "DuplicateScore")]
              /\ UNCHANGED risk_scores
         ELSE /\ \E raw_score \in WorkerRaws :
                   risk_scores' = InsertRiskScore(risk_scores,
                     ScoreRows(row.transaction_id,
                               SenderFrequency(ReadView(w), row),
                               Predict(wk[w].is_trained, raw_score)))
              /\ wk' = [wk EXCEPT ![w].snap = NoSnap,
                                  ![w].batch = Tail(wk[w].batch),
                                  ![w].pc = IF Tail(wk[w].batch) = <<>>
                                              THEN "sleep" ELSE "scoring"]
  /\ response' = NoResponse
  /\ UNCHANGED <<ledger, next_txn_id, req, env, model_file>>

PartialScore_Default(row) ==
  ScoreRows(row.transaction_id, 0, Untrained)

\* the rows an iteration writes when one of its calls raises: the insert
\* is the last call, so none
PartialScore(row) == <<>>

\* get_sender_frequency, predict or insert_risk_score raises for the row
\* at hand
WorkerRowFail(w) ==
  /\ wk[w].pc = "scoring"
  /\ IsConnected(w)
  /\ risk_scores' = InsertRiskScore(risk_scores,
                                    PartialScore(Head(wk[w].batch)))
  /\ wk' = [wk EXCEPT ![w] = ExceptHandler(w, "Error")]
  /\ response' = NoResponse
  /\ UNCHANGED <<ledger, next_txn_id, req, env, model_file>>

\* a statement is run on a dropped connection, or get_connection of line
\* 158 cannot reach the server
WorkerConnError(w) ==
  /\ \/ wk[w].pc = "poll" /\ ~IsConnected(w) /\ ~db_up
     \/ wk[w].pc = "scoring" /\ ~IsConnected(w)
  /\ wk' = [wk EXCEPT ![w] = ExceptHandler(w, "StorageUnavailable")]
  /\ response' = NoResponse
  /\ UNCHANGED <<ledger, next_txn_id, req, env, risk_scores, model_file>>

\* time.sleep(POLL_INTERVAL) is over
WorkerWake(w) ==
  /\ wk[w].pc = "sleep"
  /\ wk' = [wk EXCEPT ![w].pc = "poll", ![w].log = "none"]
  /\ response' = NoResponse
  /\ UNCHANGED <<ledger, next_txn_id, req, env, risk_scores, model_file>>

\* KeyboardInterrupt inside the loop: lines 195-197 leave the loop at once
\* and lines 202-203 close the connection
WorkerInterrupt(w) ==
  /\ wk[w].pc \in {"poll", "scoring", "sleep"}
  /\ wk' = [wk EXCEPT ![w].pc = "exited", ![w].isolation = "none",
                      ![w].snap = NoSnap]
  /\ response' = NoResponse
  /\ UNCHANGED <<ledger, next_txn_id, req, env, risk_scores, model_file>>

\* the process is killed and started again
WorkerRestart(w) ==
  /\ wk[w].pc # "start"
  /\ wk' = [wk EXCEPT ![w] = Stopped]
  /\ response' = NoResponse
  /\ UNCHANGED <<ledger, next_txn_id, req, env, risk_scores, model_file>>

\* the server becomes unreachable for the workers: their open connections
\* are dropped and the transactions of these rolled back
DbDown ==
  /\ db_up
  /\ outages < MaxOutages
  /\ db_up' = FALSE
  /\ outages' = outages + 1
  /\ wk' = [w \in Workers |->
              [wk[w] EXCEPT !.isolation = "none", !.snap = NoSnap]]
  /\ response' = NoResponse
  /\ UNCHANGED <<ledger, next_txn_id, req, call, busy, risk_scores,
                 model_file>>

DbUp ==
  /\ ~db_up
  /\ db_up' = TRUE
  /\ response' = NoResponse
  /\ UNCHANGED <<ledger, next_txn_id, req, outages, call, busy, wk,
                 risk_scores, model_file>>

WorkerStep(w) ==
  \/ WorkerConnect(w)
  \/ WorkerTrain(w)
  \/ WorkerFetch(w)
  \/ WorkerScore(w)
  \/ WorkerWake(w)

\* the steps by which the worker meets a lost connection
WorkerRecover(w) ==
  \/ WorkerReconnect(w)
  \/ WorkerConnError(w)

----------------------------------------------------------------------------

(* Feature extraction: the expressions of the SELECT of                    *)
(* fetch_unscored_transactions.  A timestamp is the number of hours since  *)
(* Thursday 1 January 1970, 00:00.                                         *)

MaxStamp == 191

\* MySQL HOUR()
HOUR(created_at) == created_at % 24

\* MySQL DAYOFWEEK(): 1 = Sunday, 2 = Monday, ..., 7 = Saturday
DAYOFWEEK(created_at) == (((created_at \div 24) + 4) % 7) + 1

\* the day of the week the detector is documented and trained with:
\* 0 = Monday, ..., 5 = Saturday, 6 = Sunday
Weekday(created_at) == ((created_at \div 24) + 3) % 7

\* the columns hour_of_day and day_of_week of a fetched row
ExtractFeatures(created_at) ==
  [hour_of_day |-> HOUR(created_at),
   day_of_week |-> DAYOFWEEK(created_at) - 1]

----------------------------------------------------------------------------

NoCall == [fn |-> "none"]

NoResult == [risk_score |-> 0 - 1, verdict |-> "none", reason |-> "none"]

\* a detector as constructed or as load() leaves it, the number of rows a
\* train() is given and the decision value the model returns
Calls ==
  {[fn |-> "init", is_trained |-> Load(f).is_trained, model |-> Load(f).model,
    rows |-> n, raw_score |-> r, result |-> NoResult] :
     f \in BOOLEAN, n \in 0..MaxRows, r \in RawScores}

\* detector.train(df)
CallTrain ==
  /\ call.fn = "init"
  /\ call' = [call EXCEPT !.fn = "train",
                          !.is_trained = Train(call.rows).is_trained,
                          !.model = Train(call.rows).model]
  /\ UNCHANGED <<ledger, next_txn_id, req, response, risk_scores, wk,
                 model_file, db_up, outages, busy>>

\* detector.predict(...)
CallPredict ==
  /\ call.fn \in {"init", "train"}
  /\ call' = [call EXCEPT !.fn = "predict",
                          !.result = Predict(call.is_trained, call.raw_score)]
  /\ UNCHANGED <<ledger, next_txn_id, req, response, risk_scores, wk,
                 model_file, db_up, outages, busy>>

InitTables ==
  /\ accounts = InitAccounts
  /\ transactions = <<>>
  /\ entries = <<>>
  /\ risk_scores = <<>>
  /\ next_txn_id = 1
  /\ req = [p \in Procs |-> Idle]
  /\ response = NoResponse
  /\ wk = [w \in Workers |-> Stopped]
  /\ model_file \in BOOLEAN
  /\ db_up = TRUE
  /\ outages = 0
  /\ busy = 0

Init == InitTables /\ call = NoCall

ScorerInit == InitTables /\ call \in Calls

ScorerNext == CallTrain \/ CallPredict

ScorerSpec == ScorerInit /\ [][ScorerNext]_vars

\* the creation timestamps a transaction can carry
Stamps ==
  {[fn |-> "created", created_at |-> t, features |-> <<>>] :
     t \in 0..MaxStamp}

\* the SELECT computes the features of a transaction row
CallExtract ==
  /\ call.fn = "created"
  /\ call' = [call EXCEPT !.fn = "extract",
                          !.features = ExtractFeatures(call.created_at)]
  /\ UNCHANGED <<ledger, next_txn_id, req, response, risk_scores, wk,
                 model_file, db_up, outages, busy>>

ExtractInit == InitTables /\ call \in Stamps

ExtractSpec == ExtractInit /\ [][CallExtract]_vars

MoneyRequest(p, users, pws, accts, amts) ==
  \E user \in users, pw_ok \in pws, a \in accts, amt \in amts :
    \/ DepositVerify(p, user, pw_ok, a, amt)
    \/ WithdrawVerify(p, user, pw_ok, a, amt)
    \/ \E b \in accts : TransferVerify(p, user, pw_ok, a, b, amt)

MoneyStep(p) ==
  \/ DepositCallProc(p)
  \/ TransferCallProc(p)
  \/ WithdrawInsertTxn(p)
  \/ WithdrawInsertEntry(p)
  \/ WithdrawCommit(p)

EngineNext ==
  \E p \in Procs :
    \/ /\ CanStart(MaxTxns)
       /\ MoneyRequest(p, Users, {TRUE}, CustomerAccts, Amounts)
    \/ MoneyStep(p)
    \/ ProcFail(p)
    \/ WithdrawFail(p)

EngineSpec == Init /\ [][EngineNext]_vars

\* the engine with the account endpoints and every kind of caller
StatusNext ==
  \E p \in Procs :
    \/ /\ CanStart(StatusTxns)
       /\ MoneyRequest(p, Users, BOOLEAN, CustomerAccts \cup {NoAcct},
                       StatusAmounts)
    \/ MoneyStep(p)
    \/ \E user \in Users, a \in CustomerAccts :
         \/ CloseRead(p, user, a)
         \/ ToggleFreezeRead(p, user, a)
    \/ CloseCommit(p)
    \/ ToggleFreezeCommit(p)

StatusSpec == Init /\ [][StatusNext]_vars

\* the money movements with every kind of caller, among them a user whom
\* an administrator has deactivated
AuthNext ==
  \E p \in Procs :
    \/ /\ CanStart(AuthTxns)
       /\ MoneyRequest(p, Users \cup Deactivated, BOOLEAN,
                       CustomerAccts \cup {NoAcct}, StatusAmounts)
    \/ MoneyStep(p)

AuthSpec == Init /\ [][AuthNext]_vars

\* one customer, moving money on the accounts, and the close and freeze
\* endpoints called by the owner and by the administrator
AccountNext ==
  \E p \in Procs :
    \/ /\ CanStart(AccountTxns)
       /\ MoneyRequest(p, {"u1"}, {TRUE}, CustomerAccts, StatusAmounts)
    \/ MoneyStep(p)
    \/ \E a \in CustomerAccts \cup {NoAcct} :
         \/ CloseRead(p, "u1", a)
         \/ ToggleFreezeRead(p, "u1", a)
         \/ admin_close_account(p, a)
         \/ admin_freeze_account(p, a)
    \/ CloseCommit(p)
    \/ ToggleFreezeCommit(p)

AccountSpec == Init /\ [][AccountNext]_vars

\* the money movements of one customer on a pool that other endpoints
\* draw on
PoolNext ==
  \/ \E p \in Procs :
       \/ /\ CanStart(PoolTxns)
          /\ PoolFree >= 2
          /\ MoneyRequest(p, {"u1"}, {TRUE}, {"A"}, StatusAmounts)
       \/ \E op \in {"deposit", "withdraw", "transfer"} :
            PoolExhausted(p, "u1", op, "A", 1)
       \/ MoneyStep(p)
       \/ ProcFail(p)
       \/ WithdrawFail(p)
  \/ OtherTake
  \/ OtherRelease

PoolSpec == Init /\ [][PoolNext]_vars

\* one caller at a time, with the amounts of the end-to-end scenario
ScenarioNext ==
  \/ /\ CanStart(ScenarioTxns)
     /\ MoneyRequest("p1", {"u1"}, {TRUE}, CustomerAccts, ScenarioAmounts)
  \/ MoneyStep("p1")

ScenarioSpec == Init /\ [][ScenarioNext]_vars

\* the workers, fed by one caller
FeedNext ==
  \/ /\ CanStart(WorkerTxns)
     /\ MoneyRequest("p1", {"u1"}, {TRUE}, {"A"}, {1})
  \/ MoneyStep("p1")

WorkerNext ==
  \/ FeedNext
  \/ \E w \in Workers : WorkerStep(w) \/ WorkerRestart(w) \/ WorkerRowFail(w)

WorkerSpec == Init /\ [][WorkerNext]_vars

\* a single worker that is never killed and whose statements never fail
FairNext == FeedNext \/ WorkerStep("w1")

FairSpec == Init /\ [][FairNext]_vars /\ WF_vars(WorkerStep("w1"))

\* a single worker with failing rows, an outage of the server and the
\* interrupt signal
LoopNext ==
  \/ FeedNext
  \/ WorkerStep("w1")
  \/ WorkerRowFail("w1")
  \/ WorkerRecover("w1")
  \/ WorkerCrash("w1")
  \/ WorkerInterrupt("w1")
  \/ DbDown
  \/ DbUp

LoopSpec == Init /\ [][LoopNext]_vars

\* a single worker that keeps taking steps and a server that comes back
\* after every outage
OutageNext ==
  \/ FeedNext
  \/ WorkerStep("w1")
  \/ WorkerRecover("w1")
  \/ WorkerCrash("w1")
  \/ DbDown
  \/ DbUp

OutageSpec ==
  /\ Init
  /\ [][OutageNext]_vars
  /\ WF_vars(WorkerStep("w1") \/ WorkerRecover("w1") \/ WorkerCrash("w1"))
  /\ WF_vars(DbUp)

----------------------------------------------------------------------------
(* Properties *)

MoneyOps == {"deposit", "withdraw", "transfer"}

TypeCode(t) ==
  transactions[CHOOSE i \in 1..Len(transactions) :
                 transactions[i].transaction_id = t].type_code

HasEntry(t, a, amt) ==
  \E i \in 1..Len(entries) :
    /\ entries[i].transaction_id = t
    /\ entries[i].account_id = a
    /\ entries[i].amount = amt

\* C1: in every reachable state the signed amounts of the entries of every
\* committed transaction sum to exactly zero.
C1_EntriesSumToZero ==
  \A t \in TxnIds : SumAmounts(EntriesOfTxn(t)) = 0

\* C2: in every reachable state the current balance of every account equals
\* the sum of the amounts of all entries recorded for that account.
C2_BalanceIsSumOfEntries ==
  \A a \in AcctIds :
    accounts[a].current_balance = SumAmounts(EntriesOfAcct(a))

\* a deposit, a withdrawal and a transfer are committed, the withdrawal
\* having raced with another operation on its account
C2_Witness ==
  /\ {transactions[i].type_code : i \in 1..Len(transactions)}
       = {"DEPOSIT", "WITHDRAWAL", "TRANSFER"}
  /\ \E i \in 1..Len(entries) :
       /\ TypeCode(entries[i].transaction_id) = "WITHDRAWAL"
       /\ entries[i].balance_after #
            SumAmounts(LET Test(e) == e.account_id = entries[i].account_id
                       IN SelectSeq(SubSeq(entries, 1, i), Test))

\* C3: in every reachable state, also under concurrent withdrawals and
\* transfers on one account, no account other than a loan account has a
\* negative balance.
C3_NonLoanBalanceNonNegative ==
  \A a \in AcctIds :
    accounts[a].account_type # "loan" => accounts[a].current_balance >= 0

\* the failures that the handler reports before it looks at the funds, and
\* the storage failure
OtherFailures == {"401", "403", "AccountNotUsable", "ValidationError", "500"}

\* C4: a withdrawal or transfer that is answered while its amount exceeds
\* the current balance of the source account fails (with insufficient funds
\* unless another failure is reported first) and leaves the ledger as it was.
C4_OverdrawAlwaysFails ==
  [][(/\ response'.op \in {"withdraw", "transfer"}
      /\ response'.account_id \in AcctIds
      /\ response'.amount > accounts[response'.account_id].current_balance)
     => (/\ response'.result \in OtherFailures \cup {"InsufficientFunds"}
         /\ ledger' = ledger)]_vars

\* C5: when a deposit and a withdrawal of the same amount on an account
\* have both committed, whatever the interleaving of their steps, the
\* balance is again what it was before the two operations.
C5_NoLostUpdate ==
  \A a \in CustomerAccts :
    LET es == EntriesOfAcct(a) IN
      (/\ Len(es) = 3
       /\ TypeCode(es[1].transaction_id) = "DEPOSIT"
       /\ {TypeCode(es[2].transaction_id), TypeCode(es[3].transaction_id)}
            = {"DEPOSIT", "WITHDRAWAL"}
       /\ es[2].amount + es[3].amount = 0)
      => accounts[a].current_balance = es[1].amount

\* the withdrawal read the balance before the deposit committed and
\* committed after it
C5_Witness ==
  \E a \in CustomerAccts :
    LET es == EntriesOfAcct(a) IN
      /\ Len(es) = 3
      /\ TypeCode(es[1].transaction_id) = "DEPOSIT"
      /\ TypeCode(es[2].transaction_id) = "DEPOSIT"
      /\ TypeCode(es[3].transaction_id) = "WITHDRAWAL"
      /\ es[2].amount + es[3].amount = 0
      /\ es[3].balance_after = es[1].amount + es[3].amount

\* the number of entry rows each kind of operation writes
EntryCount(type_code) == IF type_code = "WITHDRAWAL" THEN 1 ELSE 2

\* C7: in every reachable state, also after a storage failure between two
\* writes of an operation, the committed rows of every operation are all
\* there or all absent: every transaction row has all its entry rows, every
\* entry row has its transaction row, and the balances hold exactly the
\* committed entries.
C7_AllOrNothing ==
  /\ \A i \in 1..Len(transactions) :
       Len(EntriesOfTxn(transactions[i].transaction_id))
         = EntryCount(transactions[i].type_code)
  /\ \A i \in 1..Len(entries) : entries[i].transaction_id \in TxnIds
  /\ \A a \in AcctIds :
       accounts[a].current_balance = SumAmounts(EntriesOfAcct(a))

\* a withdrawal has just failed after its transaction row was inserted
C7_Witness ==
  /\ response.op = "withdraw" /\ response.result = "500"
  /\ \E t \in 1..(next_txn_id - 1) :
       t \notin TxnIds /\ \A p \in Procs : req[p].txn_id # t
  /\ Len(transactions) >= 1

\* C6: in every reachable state every transaction has at most one risk
\* score row, also when it is processed twice (a second worker, a repeated
\* poll, a restart).
C6_AtMostOneScore ==
  \A t \in TxnIds :
    Cardinality({i \in 1..Len(risk_scores) :
                   risk_scores[i].transaction_id = t}) <= 1

\* a worker has tried to score a transaction that had its score already
C6_Witness ==
  \E w \in Workers :
    /\ wk[w].log = "DuplicateScore"
    /\ risk_scores # <<>>

\* C8: a deposit, withdrawal or transfer of the authenticated owner that
\* finds its account frozen or closed is answered with the
\* account-not-usable error and goes no further: no row is written and no
\* balance changes.
C8_InactiveAccountRejected ==
  [][/\ (/\ response'.op \in MoneyOps
         /\ req' = req
         /\ response'.account_id \in AcctIds
         /\ accounts[response'.account_id].status # "active"
         /\ response'.result \notin {"401", "403"})
        => (response'.result = "AccountNotUsable" /\ ledger' = ledger)
     /\ \A p \in Procs :
          (req[p].pc = "idle" /\ req'[p].pc = "verified")
            => accounts[req'[p].account_id].status = "active"]_vars

\* a deposit into a closed account has just been rejected
C8_Witness ==
  /\ response.op = "deposit"
  /\ response.result = "AccountNotUsable"
  /\ accounts[response.account_id].status = "closed"
  /\ \E a \in CustomerAccts : accounts[a].status = "frozen"

ScenarioDone ==
  /\ \A p \in Procs : req[p].pc = "idle"
  /\ Len(transactions) = 3
  /\ transactions[1].type_code = "DEPOSIT"
  /\ HasEntry(transactions[1].transaction_id, "A", 100)
  /\ transactions[2].type_code = "WITHDRAWAL"
  /\ HasEntry(transactions[2].transaction_id, "A", 0 - 50)
  /\ transactions[3].type_code = "TRANSFER"
  /\ HasEntry(transactions[3].transaction_id, "A", 0 - 30)
  /\ HasEntry(transactions[3].transaction_id, "B", 30)

\* C9: after Deposit(A,100), Withdraw(A,50), Transfer(A to B,30) from zero
\* balances, A holds 20 and B holds 30, there are three transactions and
\* six entries; and after a deposit of a and a withdrawal of b alone the
\* balance is a - b.
C9_Scenario ==
  /\ ScenarioDone =>
       /\ accounts["A"].current_balance = 20
       /\ accounts["B"].current_balance = 30
       /\ Len(transactions) = 3
       /\ Len(entries) = 6
  /\ \A a \in ScenarioAmounts, b \in ScenarioAmounts :
       (/\ Len(transactions) = 2
        /\ transactions[1].type_code = "DEPOSIT"
        /\ HasEntry(transactions[1].transaction_id, "A", a)
        /\ transactions[2].type_code = "WITHDRAWAL"
        /\ HasEntry(transactions[2].transaction_id, "A", 0 - b))
       => accounts["A"].current_balance = a - b

\* C10: with a worker that keeps taking steps and a storage that never
\* fails, every committed transaction eventually has a risk score row.
C10_EveryTxnEventuallyScored ==
  \A t \in 1..WorkerTxns : (t \in TxnIds) ~> (t \in ScoredIds)

\* C11: when the insert of a risk score is rejected because the transaction
\* has a score already, the worker takes it as success: the batch is not
\* aborted, and the worker goes on to the remaining transactions of the
\* batch in the same poll.
C11_DuplicateScoreIsSuccess ==
  [][\A w \in Workers :
       (wk[w].pc = "scoring" /\ wk'[w].log = "DuplicateScore")
         => /\ wk'[w].batch = Tail(wk[w].batch)
            /\ wk'[w].batch # <<>> => wk'[w].pc = "scoring"]_vars

\* C12: when one of the calls that score a transaction of a batch raises,
\* that transaction is left without a score and the worker goes on to the
\* other transactions of the same batch, so that a transaction whose
\* scoring always fails does not keep the ones created after it from being
\* scored.
C12_FailedRowIsSkipped ==
  [][\A w \in Workers :
       (wk[w].pc = "scoring" /\ wk'[w].log = "Error")
         => /\ risk_scores' = risk_scores
            /\ wk'[w].batch = Tail(wk[w].batch)
            /\ wk'[w].batch # <<>> => wk'[w].pc = "scoring"]_vars

LoopStates == {"poll", "scoring", "sleep"}

\* C13: once the worker is in its polling loop, an error raised while it
\* fetches, scores or writes does not end it: the step that meets the error
\* takes the worker to its sleep, the sleep is followed by the next poll,
\* and the loop is left only by the interrupt.
C13_ErrorNeverEndsTheLoop ==
  [][\A w \in Workers :
       /\ (wk[w].pc \in LoopStates /\ wk'[w].log # wk[w].log
             /\ wk'[w].log # "none")
            => wk'[w].pc = "sleep"
       /\ wk[w].pc \in LoopStates => wk'[w].pc \in LoopStates \cup {"exited"}
       /\ (wk[w].pc = "sleep" /\ wk'[w].pc \in LoopStates \ {"sleep"})
            => wk'[w].pc = "poll"]_vars

\* the worker sleeps after a statement failed on the dropped connection,
\* and the server is back
C13_Witness ==
  /\ wk["w1"].pc = "sleep"
  /\ wk["w1"].log = "StorageUnavailable"
  /\ db_up
  /\ \E t \in TxnIds : t \notin ScoredIds

\* C14: a worker that has exited on the interrupt signal has scored every
\* transaction of the batch it was working on when the signal arrived: no
\* part of that batch is left behind.
C14_ShutdownFinishesBatch ==
  \A w \in Workers : wk[w].pc = "exited" => wk[w].batch = <<>>

\* C15: with a worker that keeps taking steps and a server that comes back
\* after an outage, whenever the server is unreachable the worker is later
\* connected again and polling for unscored transactions, whether the
\* outage met it connecting, training or polling.
C15_ReconnectsAfterOutage ==
  (~db_up) ~> (db_up /\ IsConnected("w1") /\ wk["w1"].pc = "poll")

\* C16: for every decision value of the model, with the label the model
\* gives it, the normalized risk, and the rounded risk predict returns, lie
\* in [0.6, 1.0] when the label is outlier and in [0.0, 0.4] when it is
\* inlier; no risk strictly between 0.4 and 0.6 is produced.
C16_TwoBands ==
  (call.fn = "predict" /\ call.is_trained) =>
    LET prediction == Prediction(call.raw_score)
        risk == NormalizeScore(call.raw_score, prediction)
        Band == IF prediction = 0 - 1 THEN 60000..Unit ELSE 0..40000
    IN /\ risk \in Band
       /\ call.result.risk_score \in Band

\* an outlier scored strictly inside its band
C16_Witness ==
  /\ call.fn = "predict" /\ call.is_trained
  /\ call.raw_score < 0
  /\ call.result.risk_score > 60000
  /\ call.result.risk_score < Unit

\* C17: the risk score and the verdict that predict returns with a trained
\* model (the values the worker stores) agree with the threshold table: the
\* verdict is SAFE exactly when the score is below 0.5, SUSPICIOUS exactly
\* when it is at least 0.5 and below 0.8, CRITICAL exactly when it is at
\* least 0.8.
C17_VerdictMatchesScore ==
  (call.fn = "predict" /\ call.is_trained) =>
    LET risk_score == call.result.risk_score
        verdict == call.result.verdict
    IN /\ verdict = "SAFE" <=> risk_score < THRESHOLD_SUSPICIOUS
       /\ verdict = "SUSPICIOUS" <=>
            (risk_score >= THRESHOLD_SUSPICIOUS
               /\ risk_score < THRESHOLD_CRITICAL)
       /\ verdict = "CRITICAL" <=> risk_score >= THRESHOLD_CRITICAL

\* C18: a detector on which no model was trained or loaded answers every
\* predict call, whatever the features, with risk 0.0, verdict SAFE and a
\* reason.
C18_UntrainedScoresSafe ==
  (call.fn = "predict" /\ ~call.is_trained) =>
    /\ call.result.risk_score = 0
    /\ call.result.verdict = "SAFE"
    /\ call.result.reason # "none"

\* predict has answered on a detector that was constructed and found no
\* model file to load
C18_Witness ==
  /\ call.fn = "predict"
  /\ ~call.is_trained /\ call.model = "none"
  /\ call.result # NoResult

\* C19: train leaves the detector trained whatever number of historical
\* rows it is given, fitting on synthetic data when they are fewer than 10
\* (none included), and a worker that is in its polling loop, scoring or
\* not, holds a trained model.
C19_NeverUntrained ==
  /\ \A rows \in 0..MaxRows :
       /\ Train(rows).is_trained
       /\ rows < MinTrainingRows => Train(rows).model = "synthetic"
  /\ \A w \in Workers :
       wk[w].pc \in LoopStates => wk[w].is_trained /\ wk[w].model # "none"

\* a worker whose model was fitted on synthetic data is scoring a batch
\* and a score has been written
C19_Witness ==
  \E w \in Workers :
    /\ wk[w].pc = "scoring"
    /\ wk[w].model = "synthetic"
    /\ \E i \in 1..Len(risk_scores) :
         risk_scores[i].risk_score > 0 /\ wk[w].batch # <<>>

\* C20: every step that writes a risk score is the step of a worker that,
\* in that iteration of its loop, holds the fetched row of the transaction,
\* has read its sender frequency and has got the result of predict: the row
\* written carries exactly these values, and an iteration in which a call
\* fails writes nothing.
C20_ScoreOnlyAfterFullRead ==
  [][risk_scores' # risk_scores =>
       \E w \in Workers :
         /\ wk[w].pc = "scoring" /\ IsConnected(w)
         /\ wk'[w].log = "none"
         /\ wk'[w].batch = Tail(wk[w].batch)
         /\ LET row == Head(wk[w].batch) IN
              \E raw_score \in WorkerRaws :
                risk_scores' = risk_scores \o
                  ScoreRows(row.transaction_id,
                            SenderFrequency(ReadView(w), row),
                            Predict(wk[w].is_trained, raw_score))]_vars

\* an iteration has failed after an earlier one wrote a score, and the
\* transaction of the failed iteration has no score
C20_Witness ==
  \E w \in Workers :
    /\ wk[w].pc = "sleep" /\ wk[w].log = "Error"
    /\ risk_scores # <<>>
    /\ \E t \in TxnIds : t \notin ScoredIds

\* C21: for every creation timestamp the extracted day of the week is in
\* 0..6 with Monday = 0 (Saturday 5, Sunday 6), and the extracted hour of
\* the day is in 0..23.
C21_MondayIsZero ==
  call.fn = "extract" =>
    /\ call.features.day_of_week \in 0..6
    /\ call.features.day_of_week = Weekday(call.created_at)
    /\ call.features.hour_of_day \in 0..23

C23_ScoresNeverChange ==
  [][/\ Len(risk_scores') >= Len(risk_scores)
     /\ \A i \in 1..Len(risk_scores) : risk_scores'[i] = risk_scores[i]]_vars

\* two transactions are scored, and a worker has met a transaction that
\* had its score already
C23_Witness ==
  /\ Len(risk_scores) = 2
  /\ \E w \in Workers : wk[w].log = "DuplicateScore"

\* C24 (as stated): a deposit, withdrawal or transfer that carries a wrong
\* password is answered 401, and no balance changes and no transaction or
\* entry row is created; no such request gets past the checks.
C24_WrongPassword401 ==
  [][/\ (response'.op \in MoneyOps /\ ~response'.pw_ok)
        => (response'.result = "401" /\ ledger' = ledger)
     /\ \A p \in Procs : req'[p].pc # "idle" => req'[p].pw_ok]_vars

\* C24 (amended): a deposit, withdrawal or transfer that carries a wrong
\* password is rejected before any write, with 401 when the caller is an
\* active user and with 403 when the caller has been deactivated; no such
\* request gets past the checks.
C24_WrongPasswordRejected ==
  [][/\ (response'.op \in MoneyOps /\ ~response'.pw_ok)
        => (/\ response'.result =
                 IF response'.user \in Deactivated THEN "403" ELSE "401"
            /\ ledger' = ledger)
     /\ \A p \in Procs : req'[p].pc # "idle" => req'[p].pw_ok]_vars

\* a request with a wrong password for an account that holds money has
\* just been answered 401
C24_Witness ==
  /\ response.op \in MoneyOps
  /\ ~response.pw_ok
  /\ response.user \in Users
  /\ response.result = "401"
  /\ response.account_id \in CustomerAccts
  /\ accounts[response.account_id].user_id = response.user
  /\ accounts[response.account_id].current_balance > 0

\* C25: in every reachable state every closed account has balance zero,
\* also when the owner's or the administrator's close runs at the same
\* time as a deposit, withdrawal or transfer on the account.
C25_ClosedHasZeroBalance ==
  \A a \in CustomerAccts :
    accounts[a].status = "closed" => accounts[a].current_balance = 0

\* C29: closed is terminal: no step changes the status of a closed
\* account, and every close or freeze/unfreeze request of the owner or of
\* the administrator that is answered while the account is closed is
\* rejected and leaves the account as it is.
C29_ClosedIsTerminal ==
  [][/\ \A a \in CustomerAccts :
          accounts[a].status = "closed" => accounts'[a].status = "closed"
     /\ (/\ response'.op \in {"close", "freeze"}
         /\ response'.account_id \in CustomerAccts
         /\ accounts[response'.account_id].status = "closed")
        => (/\ response'.result \in {"404", "AlreadyClosed", "ClosedAccount"}
            /\ accounts' = accounts)]_vars

\* the answers the service gives to any exception whatever, in or out of
\* a handler's try statement
GenericErrors == {"500", "InternalServerError"}

\* C26: a deposit, withdrawal or transfer that finds the connection pool
\* exhausted is answered with an error that tells the caller the failure
\* is retryable (not the answer given to every other exception), the
\* ledger stays as it was, and the service goes on serving requests.
C26_ExhaustionIsRetryable ==
  [][(/\ PoolFree < 2
      /\ req' = req
      /\ response'.op \in MoneyOps)
     => (/\ response'.result \notin GenericErrors
         /\ response'.result # "ok"
         /\ ledger' = ledger
         /\ \E p \in Procs : req'[p].pc = "idle")]_vars

\* the balance of account a after the first i entries, in commit order
BalanceAt(a, i) ==
  SumAmounts(LET Test(e) == e.account_id = a
             IN SelectSeq(SubSeq(entries, 1, i), Test))

\* C27: in every reachable state, whatever the interleaving, the
\* balance_after of every entry is the balance its account had right
\* after the entry was applied: the sum of the account's entries up to and
\* including it, in commit order.
C27_BalanceAfterIsRunningBalance ==
  \A i \in 1..Len(entries) :
    entries[i].balance_after = BalanceAt(entries[i].account_id, i)

\* C28: within a poll the worker scores the fetched transactions in
\* non-decreasing order of creation time: the transaction a worker has
\* just scored is no younger than any transaction of the same poll that
\* the worker has still to score.
C28_OldestFirst ==
  [][\A w \in Workers :
       (/\ wk[w].pc = "scoring"
        /\ wk'[w] # wk[w]
        /\ Len(risk_scores') = Len(risk_scores) + 1)
       => \A k \in 1..Len(wk'[w].batch) :
            CreatedAt(risk_scores'[Len(risk_scores')].transaction_id)
              <= wk'[w].batch[k].created_at]_vars

\* a worker has scored the older of two transactions of one poll, created
\* in different seconds, and has the younger still to score
C28_Witness ==
  \E w \in Workers :
    /\ wk[w].pc = "scoring"
    /\ Len(wk[w].batch) = 1
    /\ risk_scores # <<>>
    /\ CreatedAt(risk_scores[Len(risk_scores)].transaction_id)
         < wk[w].batch[1].created_at

\* C30: a deposit, withdrawal or transfer of an authenticated caller whose
\* source account belongs to another user or does not exist is answered
\* 403, with no balance changed and no transaction or entry row created;
\* the handlers go on only with an account of the caller.
C30_OnlyOwnAccount ==
  [][/\ (/\ response'.op \in MoneyOps
         /\ response'.pw_ok
         /\ \/ response'.account_id \notin AcctIds
            \/ accounts[response'.account_id].user_id # response'.user)
        => (response'.result = "403" /\ ledger' = ledger)
     /\ \A p \in Procs :
          (req'[p].pc # "idle" /\ req'[p].op \in MoneyOps)
            => /\ req'[p].account_id \in AcctIds
               /\ accounts[req'[p].account_id].user_id = req'[p].user]_vars

\* an active user with the right password has just been refused a money
\* movement on another user's account, which holds money
C30_Witness ==
  /\ response.op \in MoneyOps
  /\ response.pw_ok
  /\ response.user \in Users
  /\ response.result = "403"
  /\ response.account_id \in CustomerAccts
  /\ accounts[response.account_id].user_id # response.user
  /\ accounts[response.account_id].current_balance > 0

====
